---- MODULE Spec2Model ----
(***************************************************************************)
(* Model of the langgraph-chatbot orchestration: the LangGraph workflow    *)
(* (intent_classifier -> chat_node -> approval_check -> tools -> chat_node)*)
(* compiled with interrupt_before=["tools"], the message reducer of        *)
(* ChatState, the approval gate, the deduplicating FilteredToolNode and    *)
(* the Streamlit handlers that start and resume a turn on one thread.      *)
(***************************************************************************)
EXTENDS Integers, Sequences, FiniteSets, TLC

(* ------------------------------ bounds --------------------------------- *)
\* user messages submitted on the thread
MaxTurns == 1
\* tool-call identifiers the model may issue over the thread's lifetime
MaxCalls == 3
\* tool calls in one assistant batch
MaxBatch == 3
\* resume-handler invocations (approve all / reject all / submit / auto)
MaxResumes == 2
\* further user messages typed while the thread is stopped before tools
MaxInterrupting == 1

(* ------------------------- program constants --------------------------- *)
\* tools/__init__.py ALL_TOOLS, in catalog order
ALL_TOOLS ==
    << "calculator", "get_weather", "unit_converter", "get_current_time",
       "date_calculator", "file_operations", "web_search" >>

\* config.py Settings.tools_requiring_approval: the default, and a deployment
\* that also lists the calculator (the setting is read from the environment)
DefaultToolsRequiringApproval == << "file_operations", "web_search" >>
StrictToolsRequiringApproval == << "calculator", "file_operations", "web_search" >>

\* config.py Settings.max_schema_retries (default)
max_schema_retries == 3

\* config.py Settings.intent_classifier_turns (default)
intent_classifier_turns == 5

\* names the modelled LLM puts in its tool calls: one auto-approved tool and
\* the two tools that require approval
ModelToolNames == { "calculator", "file_operations", "web_search" }

(* ----------------------------- helpers --------------------------------- *)
Range(s) == { s[i] : i \in 1..Len(s) }

RECURSIVE SeqsUpTo(_, _)
\* all sequences over S of length 0..n
SeqsUpTo(S, n) ==
    IF n = 0 THEN { << >> }
    ELSE LET shorter == SeqsUpTo(S, n - 1)
         IN  shorter \cup { Append(s, x) : s \in shorter, x \in S }

(* ----------------------------- messages -------------------------------- *)
\* mid is the message id the reducer assigns (0 = not yet assigned)
HumanMessage ==
    [ type |-> "human", content |-> "user", tool_calls |-> << >>,
      tool_call_id |-> 0, name |-> "", mid |-> 0 ]

AIMessage(content, calls) ==
    [ type |-> "ai", content |-> content, tool_calls |-> calls,
      tool_call_id |-> 0, name |-> "", mid |-> 0 ]

ToolMessage(content, callId, name) ==
    [ type |-> "tool", content |-> content, tool_calls |-> << >>,
      tool_call_id |-> callId, name |-> name, mid |-> 0 ]

RejectionText == "rejected_by_user"
ToolResultText == "tool_result"

IsAIWithCalls(m) == m.type = "ai" /\ m.tool_calls # << >>

\* index of the last AIMessage that carries tool calls, 0 when there is none
LastAIIndex(msgs) ==
    LET idx == { i \in 1..Len(msgs) : IsAIWithCalls(msgs[i]) }
    IN  IF idx = {} THEN 0 ELSE CHOOSE i \in idx : \A j \in idx : j <= i

RECURSIVE add_messages_append_always(_, _)
\* variant: every message is appended, whether or not its id is in the list
add_messages_append_always(left, right) ==
    IF right = << >> THEN left
    ELSE LET m == Head(right)
         IN  IF m.mid = 0
             THEN add_messages_append_always(
                      Append(left, [m EXCEPT !.mid = Len(left) + 1]), Tail(right))
             ELSE add_messages_append_always(Append(left, m), Tail(right))

RECURSIVE add_messages(_, _)
\* langgraph add_messages: a message without id gets a fresh one; a message
\* whose id is already in the list replaces that entry in place; any other
\* message is appended.  Ids are 1..Len, so Len + 1 is unused.
add_messages(left, right) ==
    IF right = << >> THEN left
    ELSE LET m == Head(right)
             pos == { i \in 1..Len(left) : m.mid # 0 /\ left[i].mid = m.mid }
         IN  IF m.mid = 0
             THEN add_messages(Append(left, [m EXCEPT !.mid = Len(left) + 1]), Tail(right))
             ELSE IF pos # {}
             THEN add_messages([left EXCEPT ![CHOOSE i \in pos : TRUE] = m], Tail(right))
             ELSE add_messages(Append(left, m), Tail(right))

(* --------------------------- approval gate ----------------------------- *)
\* variant: the default of the lookup is True
StateGetFlag_default_true(flag) == flag # "false"

\* state.get("human_in_loop_enabled", False): the field is "absent" until a
\* turn input sets it
StateGetFlag(flag) == flag = "true"

\* variant: returns from inside the loop, after the first tool call
extract_pending_tools_first_only(msgs) ==
    LET i == LastAIIndex(msgs)
    IN  IF i = 0 THEN << >>
        ELSE << [ name |-> msgs[i].tool_calls[1].name,
                  id |-> msgs[i].tool_calls[1].id ] >>

\* approval_node.extract_pending_tools: the tool calls of the last AIMessage
\* that has any, as {name, id} entries in their original order
extract_pending_tools(msgs) ==
    LET i == LastAIIndex(msgs)
    IN  IF i = 0 THEN << >>
        ELSE [ k \in 1..Len(msgs[i].tool_calls) |->
                 [ name |-> msgs[i].tool_calls[k].name,
                   id |-> msgs[i].tool_calls[k].id ] ]

\* variant: the append to tools_auto_approved is outside the else
check_approval_required_overlap(tool_calls, human_in_loop_enabled, required) ==
    IF ~human_in_loop_enabled
    THEN << << >>, tool_calls >>
    ELSE << SelectSeq(tool_calls, LAMBDA tc : tc.name \in Range(required)),
            tool_calls >>

\* approval_node.check_approval_required, with settings.tools_requiring_approval
\* passed as required; returns (tools_needing_approval, tools_auto_approved)
check_approval_required(tool_calls, human_in_loop_enabled, required) ==
    IF ~human_in_loop_enabled
    THEN << << >>, tool_calls >>
    ELSE << SelectSeq(tool_calls, LAMBDA tc : tc.name \in Range(required)),
            SelectSeq(tool_calls, LAMBDA tc : tc.name \notin Range(required)) >>

\* variant: returns every pending tool, not only those needing approval
approval_check_node_all_pending(msgs, flag, required, raised) ==
    IF raised
    THEN [ needs_approval |-> FALSE, pending_tool_calls |-> << >> ]
    ELSE LET pending_tools == extract_pending_tools(msgs)
             split == check_approval_required(pending_tools, StateGetFlag(flag), required)
         IN  IF pending_tools = << >>
             THEN [ needs_approval |-> FALSE, pending_tool_calls |-> << >> ]
             ELSE IF split[1] # << >>
             THEN [ needs_approval |-> TRUE, pending_tool_calls |-> pending_tools ]
             ELSE [ needs_approval |-> FALSE, pending_tool_calls |-> << >> ]

\* variant: the except branch blocks instead of letting the tools run
approval_check_node_fail_closed(msgs, flag, required, raised) ==
    IF raised
    THEN [ needs_approval |-> TRUE, pending_tool_calls |-> extract_pending_tools(msgs) ]
    ELSE LET pending_tools == extract_pending_tools(msgs)
             split == check_approval_required(pending_tools, StateGetFlag(flag), required)
         IN  IF pending_tools = << >>
             THEN [ needs_approval |-> FALSE, pending_tool_calls |-> << >> ]
             ELSE IF split[1] # << >>
             THEN [ needs_approval |-> TRUE, pending_tool_calls |-> split[1] ]
             ELSE [ needs_approval |-> FALSE, pending_tool_calls |-> << >> ]

\* variant: a call of a tool that has a rejection ToolMessage in the history
\* is left out of the calls that need approval
approval_check_node_skip_rejected(msgs, flag, required, raised) ==
    IF raised
    THEN [ needs_approval |-> FALSE, pending_tool_calls |-> << >> ]
    ELSE LET pending_tools == extract_pending_tools(msgs)
             split == check_approval_required(pending_tools, StateGetFlag(flag), required)
             rejected == { msgs[i].name : i \in { j \in 1..Len(msgs) :
                              msgs[j].type = "tool" /\ msgs[j].content = RejectionText } }
             asked == SelectSeq(split[1], LAMBDA tc : tc.name \notin rejected)
         IN  IF pending_tools = << >>
             THEN [ needs_approval |-> FALSE, pending_tool_calls |-> << >> ]
             ELSE IF asked # << >>
             THEN [ needs_approval |-> TRUE, pending_tool_calls |-> asked ]
             ELSE [ needs_approval |-> FALSE, pending_tool_calls |-> << >> ]

\* approval_node.approval_check_node: the state update it returns; raised is
\* TRUE when the body of its try block raised (the except branch)
approval_check_node(msgs, flag, required, raised) ==
    IF raised
    THEN [ needs_approval |-> FALSE, pending_tool_calls |-> << >> ]
    ELSE LET pending_tools == extract_pending_tools(msgs)
             split == check_approval_required(pending_tools, StateGetFlag(flag), required)
         IN  IF pending_tools = << >>
             THEN [ needs_approval |-> FALSE, pending_tool_calls |-> << >> ]
             ELSE IF split[1] # << >>
             THEN [ needs_approval |-> TRUE, pending_tool_calls |-> split[1] ]
             ELSE [ needs_approval |-> FALSE, pending_tool_calls |-> << >> ]

\* approval_node.should_interrupt: both routes lead to the tools node
should_interrupt(needs) == IF needs THEN "interrupt" ELSE "tools"

(* ------------------------- filtered tool node -------------------------- *)
\* ids that already have a ToolMessage in the history
existing_tool_ids(msgs) ==
    { msgs[i].tool_call_id : i \in { j \in 1..Len(msgs) : msgs[j].type = "tool" } }

\* FilteredToolNode.__call__ lines 226-263: the calls handed to the wrapped
\* ToolNode, in batch order
filtered_tool_calls(msgs) ==
    LET i == LastAIIndex(msgs)
    IN  IF i = 0 THEN << >>
        ELSE SelectSeq(msgs[i].tool_calls,
                       LAMBDA tc : tc.id \notin existing_tool_ids(msgs))

\* variant: the temporary list keeps the stored AIMessage
updated_messages_unfiltered(msgs) == msgs

\* FilteredToolNode.__call__ lines 265-297: the temporary message list, the
\* stored AIMessage replaced by a copy that carries only the filtered calls
updated_messages(msgs) ==
    LET i == LastAIIndex(msgs)
    IN  [ msgs EXCEPT ![i] = [ msgs[i] EXCEPT !.tool_calls = filtered_tool_calls(msgs) ] ]

\* langgraph.prebuilt.ToolNode: runs every tool call of the latest AIMessage
\* of the list it is given and returns one ToolMessage per call, in call order
ToolNode(msgs) ==
    LET ai == { i \in 1..Len(msgs) : msgs[i].type = "ai" }
        last == CHOOSE i \in ai : \A j \in ai : j <= i
        calls == IF ai = {} THEN << >> ELSE msgs[last].tool_calls
    IN  [ k \in 1..Len(calls) |-> ToolMessage(ToolResultText, calls[k].id, calls[k].name) ]

\* variant: the filtered copy of the AIMessage is returned with the results
FilteredToolNode_returns_copy(msgs) ==
    IF LastAIIndex(msgs) = 0 THEN << >>
    ELSE IF filtered_tool_calls(msgs) = << >> THEN << >>
    ELSE << updated_messages(msgs)[LastAIIndex(msgs)] >> \o ToolNode(updated_messages(msgs))

\* FilteredToolNode.__call__: the messages it returns
FilteredToolNode(msgs) ==
    IF LastAIIndex(msgs) = 0 THEN << >>
    ELSE IF filtered_tool_calls(msgs) = << >> THEN << >>
    ELSE ToolNode(updated_messages(msgs))

\* ids the wrapped ToolNode dispatches to the underlying tools
DispatchedIds(msgs) ==
    [ k \in 1..Len(FilteredToolNode(msgs)) |-> FilteredToolNode(msgs)[k].tool_call_id ]

(* ------------------------------ resume --------------------------------- *)
\* variant: stops after the first rejected call
rejection_messages_first_only(msgs, rejected_tools) ==
    LET i == LastAIIndex(msgs)
        hit == IF i = 0 THEN << >>
               ELSE SelectSeq(msgs[i].tool_calls, LAMBDA tc : tc.name \in rejected_tools)
    IN  IF hit = << >> THEN << >>
        ELSE << ToolMessage(RejectionText, hit[1].id, hit[1].name) >>

\* handle_approval_and_resume lines 59-69: a rejection ToolMessage for every
\* call of the last tool-calling AIMessage whose name is in rejected_tools
rejection_messages(msgs, rejected_tools) ==
    LET i == LastAIIndex(msgs)
        hit == IF i = 0 THEN << >>
               ELSE SelectSeq(msgs[i].tool_calls, LAMBDA tc : tc.name \in rejected_tools)
    IN  [ k \in 1..Len(hit) |-> ToolMessage(RejectionText, hit[k].id, hit[k].name) ]

\* variant: any assistant message is routed to the tools branch
tools_condition_any_ai(msgs) ==
    IF msgs # << >> /\ msgs[Len(msgs)].type = "ai" THEN "tools" ELSE "end"

\* langgraph.prebuilt.tools_condition on the last message
tools_condition(msgs) ==
    IF msgs # << >> /\ msgs[Len(msgs)].type = "ai" /\ msgs[Len(msgs)].tool_calls # << >>
    THEN "tools" ELSE "end"

(* ------------------------- intent classifier --------------------------- *)
RECURSIVE extract_turns_appended(_, _, _, _)
\* variant: a turn found is put at the end of the list
extract_turns_appended(msgs, i, n, turns) ==
    IF i < 1 \/ Len(turns) \div 2 >= n THEN turns
    ELSE IF msgs[i].type = "ai"
    THEN LET humans == { j \in 1..(i - 1) : msgs[j].type = "human" }
             j == CHOOSE x \in humans : \A y \in humans : y <= x
         IN  IF humans # {}
             THEN extract_turns_appended(msgs, j - 1, n, turns \o << msgs[j], msgs[i] >>)
             ELSE extract_turns_appended(msgs, i - 1, n, turns)
    ELSE extract_turns_appended(msgs, i - 1, n, turns)

RECURSIVE extract_turns_from(_, _, _, _)
\* extract_last_n_turns lines 45-65: the backward walk from index i with the
\* turns collected so far; an AIMessage is taken with the nearest
\* HumanMessage before it and the walk goes on before that HumanMessage
extract_turns_from(msgs, i, n, turns) ==
    IF i < 1 \/ Len(turns) \div 2 >= n THEN turns
    ELSE IF msgs[i].type = "ai"
    THEN LET humans == { j \in 1..(i - 1) : msgs[j].type = "human" }
             j == CHOOSE x \in humans : \A y \in humans : y <= x
         IN  IF humans # {}
             THEN extract_turns_from(msgs, j - 1, n, << msgs[j], msgs[i] >> \o turns)
             ELSE extract_turns_from(msgs, i - 1, n, turns)
    ELSE extract_turns_from(msgs, i - 1, n, turns)

\* intent_classifier.extract_last_n_turns(messages, n)
extract_last_n_turns(msgs, n) == extract_turns_from(msgs, Len(msgs), n, << >>)

\* intent_classifier_node line 92: the context handed to the classifier, taken
\* from the history without the current message
context_messages(msgs) ==
    IF msgs = << >> THEN << >>
    ELSE extract_last_n_turns(SubSeq(msgs, 1, Len(msgs) - 1), intent_classifier_turns)

\* what one classifier invocation yields: unparseable / not an array ("bad"),
\* a JSON array of names ("array"), or an unexpected exception ("error")
ClassifierArrays ==
    { << >>, << "calculator" >>, << "file_operations", "not_a_tool" >>,
      << "not_a_tool" >> }

ClassifierReplies ==
    { [ kind |-> "bad", names |-> << >> ], [ kind |-> "error", names |-> << >> ] }
    \cup { [ kind |-> "array", names |-> a ] : a \in ClassifierArrays }

\* scripts of classifier replies: retries only follow a "bad" reply
ClassifierScripts ==
    { s \in SeqsUpTo(ClassifierReplies, max_schema_retries) :
        /\ s # << >>
        /\ \A i \in 1..(Len(s) - 1) : s[i].kind = "bad"
        /\ (Len(s) < max_schema_retries => s[Len(s)].kind # "bad") }

\* intent_classifier_node lines 103-122: the messages of the classifier
\* prompt before any retry (the context messages are left out)
base_classifier_messages ==
    << "system_prompt", "available_tools", "current_query", "respond_with_json" >>

\* the AIMessage with the parse error that a retry appends (lines 181-191)
FeedbackMessage == "json_error_feedback"

\* variant: the validation of the returned names is missing
classifier_loop_no_validation(attempt, script, current_messages) ==
    IF \E i \in (attempt + 1)..Len(script) : script[i].kind = "error"
    THEN [ exc |-> TRUE, allowed_tools |-> << >>, invocations |-> Len(script),
           prompts |-> << >> ]
    ELSE IF script[Len(script)].kind = "array"
    THEN [ exc |-> FALSE, allowed_tools |-> script[Len(script)].names,
           invocations |-> Len(script), prompts |-> << >> ]
    ELSE [ exc |-> FALSE, allowed_tools |-> ALL_TOOLS, invocations |-> Len(script),
           prompts |-> << >> ]

RECURSIVE classifier_loop_no_feedback(_, _, _)
\* variant: a retry sends the same messages again
classifier_loop_no_feedback(attempt, script, current_messages) ==
    IF attempt >= max_schema_retries
    THEN [ exc |-> FALSE, allowed_tools |-> ALL_TOOLS, invocations |-> attempt,
           prompts |-> << >> ]
    ELSE LET r == script[attempt + 1]
         IN  IF r.kind = "array"
             THEN [ exc |-> FALSE,
                    allowed_tools |-> SelectSeq(r.names, LAMBDA n : n \in Range(ALL_TOOLS)),
                    invocations |-> attempt + 1,
                    prompts |-> << current_messages >> ]
             ELSE IF r.kind = "bad"
             THEN LET rest == classifier_loop_no_feedback(attempt + 1, script,
                                                          current_messages)
                  IN  [ rest EXCEPT !.prompts = << current_messages >> \o @ ]
             ELSE [ exc |-> TRUE, allowed_tools |-> << >>, invocations |-> attempt + 1,
                    prompts |-> << current_messages >> ]

RECURSIVE classifier_loop(_, _, _)
\* intent_classifier_node lines 135-201: the retry loop from attempt on, with
\* the messages the next prompt is built from; exc is TRUE when an exception
\* other than JSONDecodeError / ValueError leaves the loop, invocations
\* counts the calls of classifier_llm.invoke and prompts lists the messages
\* each call was given
classifier_loop(attempt, script, current_messages) ==
    IF attempt >= max_schema_retries
    THEN [ exc |-> FALSE, allowed_tools |-> ALL_TOOLS, invocations |-> attempt,
           prompts |-> << >> ]
    ELSE LET r == script[attempt + 1]
         IN  IF r.kind = "array"
             THEN [ exc |-> FALSE,
                    allowed_tools |-> SelectSeq(r.names, LAMBDA n : n \in Range(ALL_TOOLS)),
                    invocations |-> attempt + 1,
                    prompts |-> << current_messages >> ]
             ELSE IF r.kind = "bad"
             THEN LET rest == classifier_loop(attempt + 1, script,
                                              Append(current_messages, FeedbackMessage))
                  IN  [ rest EXCEPT !.prompts = << current_messages >> \o @ ]
             ELSE [ exc |-> TRUE, allowed_tools |-> << >>, invocations |-> attempt + 1,
                    prompts |-> << current_messages >> ]

\* the classifier behaviours the graph run is explored with: a usable array
\* with an unknown name in it, and an exhausted retry loop
GraphClassifierScripts ==
    { << [ kind |-> "array", names |-> << "file_operations", "not_a_tool" >> ] >>,
      [ i \in 1..max_schema_retries |-> [ kind |-> "bad", names |-> << >> ] ] }

\* variant: the outer except clause re-raises
intent_classifier_call_reraise(msgs, script) ==
    IF msgs = << >>
    THEN [ raised |-> TRUE, allowed_tools |-> << >>, invocations |-> 0,
           prompts |-> << >> ]
    ELSE IF msgs[Len(msgs)].type # "human"
    THEN [ raised |-> FALSE, allowed_tools |-> ALL_TOOLS, invocations |-> 0,
           prompts |-> << >> ]
    ELSE LET out == classifier_loop(0, script, base_classifier_messages)
         IN  [ raised |-> out.exc, allowed_tools |-> out.allowed_tools,
               invocations |-> out.invocations, prompts |-> out.prompts ]

\* intent_classifier_node as one call: what it returns (allowed_tools) or
\* that it raised.  messages[-1] of an empty list raises IndexError, which
\* the outer except (lines 203-206) turns into the full catalog, like every
\* exception that leaves the retry loop
intent_classifier_call(msgs, script) ==
    IF msgs = << >>
    THEN [ raised |-> FALSE, allowed_tools |-> ALL_TOOLS, invocations |-> 0,
           prompts |-> << >> ]
    ELSE IF msgs[Len(msgs)].type # "human"
    THEN [ raised |-> FALSE, allowed_tools |-> ALL_TOOLS, invocations |-> 0,
           prompts |-> << >> ]
    ELSE LET out == classifier_loop(0, script, base_classifier_messages)
         IN  IF out.exc
             THEN [ raised |-> FALSE, allowed_tools |-> ALL_TOOLS,
                    invocations |-> out.invocations, prompts |-> out.prompts ]
             ELSE [ raised |-> FALSE, allowed_tools |-> out.allowed_tools,
                    invocations |-> out.invocations, prompts |-> out.prompts ]

\* intent_classifier_node: the allowed_tools it returns
intent_classifier_node(msgs, script) == intent_classifier_call(msgs, script).allowed_tools

(* ------------------------------ chat node ------------------------------ *)
\* what one model invocation yields: a text answer, an answer with tool
\* calls, or an exception of one of the classes chat_node tells apart
StrictOutcomes == { "final", "tools", "rate_limit", "schema", "validation", "other" }
SchemaErrors == { "schema", "validation" }

\* scripts of model outcomes: k < max_schema_retries schema errors of either
\* class and the outcome that ends the strict loop, or max_schema_retries
\* schema errors and the outcome of the fallback invocation
ChatScripts ==
    { p \o << t >> :
        p \in { q \in SeqsUpTo(SchemaErrors, max_schema_retries) :
                  Len(q) < max_schema_retries },
        t \in StrictOutcomes \ SchemaErrors }
    \cup { p \o << t >> :
             p \in { q \in SeqsUpTo(SchemaErrors, max_schema_retries) :
                       Len(q) = max_schema_retries },
             t \in StrictOutcomes }

\* create_llm(tools, strict): the model as it is invoked, with the tools it
\* has bound (none when tools is empty or None)
create_llm(tools, strict) == [ tools |-> tools, strict |-> strict ]

\* variant: an empty allowed_tools is applied as a filter too
filtered_tools_always_restricted(allowed) ==
    SelectSeq(ALL_TOOLS, LAMBDA n : n \in Range(allowed))

\* chat_node lines 85-91: the catalog restricted to allowed_tools, or the
\* whole catalog when allowed_tools is empty
filtered_tools(allowed) ==
    IF allowed # << >>
    THEN SelectSeq(ALL_TOOLS, LAMBDA n : n \in Range(allowed))
    ELSE ALL_TOOLS

\* what a successful invocation returns
Response(outcome, calls) ==
    IF outcome = "tools" THEN AIMessage("answer", calls) ELSE AIMessage("answer", << >>)

RECURSIVE chat_loop_fallback_early(_, _, _, _)
\* variant: the first schema error already leads to the fallback
chat_loop_fallback_early(attempt, script, calls, tools) ==
    IF attempt >= 1
    THEN LET o == script[Len(script)]
         IN  [ exc |-> FALSE,
               messages |-> IF o \in { "final", "tools" }
                            THEN << Response(o, calls) >>
                            ELSE << AIMessage("apology", << >>) >>,
               invoked |-> << create_llm(<< >>, FALSE) >> ]
    ELSE LET o == script[attempt + 1]
             llm == create_llm(tools, TRUE)
         IN  IF o \in { "final", "tools" }
             THEN [ exc |-> FALSE, messages |-> << Response(o, calls) >>,
                    invoked |-> << llm >> ]
             ELSE IF o = "rate_limit"
             THEN [ exc |-> FALSE,
                    messages |-> << AIMessage("rate_limit_error", << >>) >>,
                    invoked |-> << llm >> ]
             ELSE IF o \in SchemaErrors
             THEN LET rest == chat_loop_fallback_early(attempt + 1, script, calls, tools)
                  IN  [ rest EXCEPT !.invoked = << llm >> \o @ ]
             ELSE [ exc |-> TRUE, messages |-> << >>, invoked |-> << llm >> ]

RECURSIVE chat_loop_fallback_unguarded(_, _, _, _)
\* variant: the fallback invocation is not inside a try
chat_loop_fallback_unguarded(attempt, script, calls, tools) ==
    IF attempt >= max_schema_retries
    THEN LET o == script[attempt + 1]
         IN  IF o \in { "final", "tools" }
             THEN [ exc |-> FALSE, messages |-> << Response(o, calls) >>,
                    invoked |-> << create_llm(<< >>, FALSE) >> ]
             ELSE [ exc |-> TRUE, messages |-> << >>,
                    invoked |-> << create_llm(<< >>, FALSE) >> ]
    ELSE LET o == script[attempt + 1]
             llm == create_llm(tools, TRUE)
         IN  IF o \in { "final", "tools" }
             THEN [ exc |-> FALSE, messages |-> << Response(o, calls) >>,
                    invoked |-> << llm >> ]
             ELSE IF o = "rate_limit"
             THEN [ exc |-> FALSE,
                    messages |-> << AIMessage("rate_limit_error", << >>) >>,
                    invoked |-> << llm >> ]
             ELSE IF o \in SchemaErrors
             THEN LET rest == chat_loop_fallback_unguarded(attempt + 1, script, calls, tools)
                  IN  [ rest EXCEPT !.invoked = << llm >> \o @ ]
             ELSE [ exc |-> TRUE, messages |-> << >>, invoked |-> << llm >> ]

RECURSIVE chat_loop_rate_limit_fallback(_, _, _, _)
\* variant: a rate-limit error leaves the loop for the fallback invocation,
\* which hits the same limit
chat_loop_rate_limit_fallback(attempt, script, calls, tools) ==
    IF attempt >= max_schema_retries
    THEN LET o == script[attempt + 1]
         IN  [ exc |-> FALSE,
               messages |-> IF o \in { "final", "tools" }
                            THEN << Response(o, calls) >>
                            ELSE << AIMessage("apology", << >>) >>,
               invoked |-> << create_llm(<< >>, FALSE) >> ]
    ELSE LET o == script[attempt + 1]
             llm == create_llm(tools, TRUE)
         IN  IF o \in { "final", "tools" }
             THEN [ exc |-> FALSE, messages |-> << Response(o, calls) >>,
                    invoked |-> << llm >> ]
             ELSE IF o = "rate_limit"
             THEN [ exc |-> FALSE,
                    messages |-> << AIMessage("apology", << >>) >>,
                    invoked |-> << llm, create_llm(<< >>, FALSE) >> ]
             ELSE IF o \in SchemaErrors
             THEN LET rest == chat_loop_rate_limit_fallback(attempt + 1, script, calls, tools)
                  IN  [ rest EXCEPT !.invoked = << llm >> \o @ ]
             ELSE [ exc |-> TRUE, messages |-> << >>, invoked |-> << llm >> ]

RECURSIVE chat_loop(_, _, _, _)
\* chat_node lines 97-174: the strict retry loop from attempt on, then the
\* fallback without tools.  calls are the tool calls of a tool-calling
\* answer, tools the tools bound in strict mode; invoked lists the models
\* invoked, exc is TRUE when the exception is re-raised (line 156)
chat_loop(attempt, script, calls, tools) ==
    IF attempt >= max_schema_retries
    THEN LET o == script[attempt + 1]
         IN  [ exc |-> FALSE,
               messages |-> IF o \in { "final", "tools" }
                            THEN << Response(o, calls) >>
                            ELSE << AIMessage("apology", << >>) >>,
               invoked |-> << create_llm(<< >>, FALSE) >> ]
    ELSE LET o == script[attempt + 1]
             llm == create_llm(tools, TRUE)
         IN  IF o \in { "final", "tools" }
             THEN [ exc |-> FALSE, messages |-> << Response(o, calls) >>,
                    invoked |-> << llm >> ]
             ELSE IF o = "rate_limit"
             THEN [ exc |-> FALSE,
                    messages |-> << AIMessage("rate_limit_error", << >>) >>,
                    invoked |-> << llm >> ]
             ELSE IF o \in SchemaErrors
             THEN LET rest == chat_loop(attempt + 1, script, calls, tools)
                  IN  [ rest EXCEPT !.invoked = << llm >> \o @ ]
             ELSE [ exc |-> TRUE, messages |-> << >>, invoked |-> << llm >> ]

\* SystemMessage(content=settings.main_llm_system_prompt)
SystemMessage ==
    [ type |-> "system", content |-> "main_llm_system_prompt",
      tool_calls |-> << >>, tool_call_id |-> 0, name |-> "", mid |-> 0 ]

\* chat_node lines 122-134 and 137-151: the corrective feedback injected
\* after a schema error of class o (the second class quotes the error)
SchemaFeedback(o) ==
    AIMessage(IF o = "schema" THEN "schema_feedback" ELSE "schema_feedback_with_error",
              << >>)

\* chat_node lines 80-83: the system prompt is put in front of a local list
\* unless the history already holds a SystemMessage
with_system_prompt(msgs) ==
    IF \E i \in 1..Len(msgs) : msgs[i].type = "system"
    THEN msgs
    ELSE << SystemMessage >> \o msgs

RECURSIVE chat_prompts(_, _, _)
\* chat_node lines 95-162: the local list current_messages as it is sent by
\* each model invocation from attempt on; every schema error adds one
\* feedback message to it
chat_prompts(attempt, script, current_messages) ==
    IF attempt >= max_schema_retries
    THEN << current_messages >>
    ELSE LET o == script[attempt + 1]
         IN  IF o \in SchemaErrors
             THEN << current_messages >> \o
                  chat_prompts(attempt + 1, script,
                               Append(current_messages, SchemaFeedback(o)))
             ELSE << current_messages >>

\* the model behaviours the graph run is explored with: a text answer and a
\* tool-calling answer, at once or after one schema error
GraphChatScripts ==
    { << "final" >>, << "tools" >>, << "schema", "tools" >>, << "schema", "final" >> }

\* variant: the update holds the feedback messages of the local list too
chat_node_returns_feedback(script, calls, allowed) ==
    LET out == chat_loop(0, script, calls, filtered_tools(allowed))
        feedback == [ k \in 1..(Len(out.invoked) - 1) |-> SchemaFeedback(script[k]) ]
    IN  IF out.exc
        THEN [ raised |-> FALSE,
               messages |-> feedback \o << AIMessage("error_occurred", << >>) >>,
               invoked |-> out.invoked ]
        ELSE [ raised |-> FALSE, messages |-> feedback \o out.messages,
               invoked |-> out.invoked ]

\* variant: the outer except returns no message
chat_node_error_no_message(script, calls, allowed) ==
    LET out == chat_loop(0, script, calls, filtered_tools(allowed))
    IN  [ raised |-> FALSE, messages |-> out.messages, invoked |-> out.invoked ]

\* chat_node as one call: the messages of the update it returns, or that it
\* raised.  The outer except (lines 176-179) turns every exception that
\* leaves the loop into an assistant message
chat_node(script, calls, allowed) ==
    LET out == chat_loop(0, script, calls, filtered_tools(allowed))
    IN  IF out.exc
        THEN [ raised |-> FALSE,
               messages |-> << AIMessage("error_occurred", << >>) >>,
               invoked |-> out.invoked ]
        ELSE [ raised |-> FALSE, messages |-> out.messages, invoked |-> out.invoked ]

\* tool-call batches the model may answer with: names from ModelToolNames,
\* identifiers first, first + 1, ... never used before on the thread
Batches(first) ==
    { [ k \in 1..Len(names) |-> [ name |-> names[k], id |-> first + k - 1 ] ] :
        names \in { n \in SeqsUpTo(ModelToolNames, MaxBatch) :
                      n # << >> /\ first + Len(n) - 1 <= MaxCalls } }

(* ------------------------------- state --------------------------------- *)
VARIABLES
    \* checkpointed ChatState of the thread
    messages, allowed_tools, human_in_loop_enabled, needs_approval,
    pending_tool_calls,
    \* checkpoint: the node the graph runs next ("none", "tools" or "end")
    next_node,
    \* position of the graph run in flight ("idle" when no run is in flight)
    pc,
    \* the handler that started the run in flight, and what it last returned
    caller, has_more_interrupts,
    \* st.session_state["approval_decisions"]
    approval_decisions,
    \* settings.tools_requiring_approval of this deployment
    tools_requiring_approval,
    \* counters that bound the exploration
    turns, resumes, nextCallId,
    \* observation: the calls handed to the underlying tools, in order, each
    \* with the value human_in_loop_enabled had at that moment
    executed,
    \* observation: the last action taken and what the last gate / tools /
    \* resume step saw and did
    lastStep, gateOut, lastDispatch, lastResume,
    \* observation: ids of batches resumed from a suspension, ids that were
    \* pending when a decision was submitted, ids given a rejection message
    resumedIds, decidedIds, rejectedIds,
    \* observation: set while a decision is submitted a second time
    replay,
    \* input and result of a function applied on its own (SpecGate)
    fn

vars ==
    << messages, allowed_tools, human_in_loop_enabled, needs_approval,
       pending_tool_calls, next_node, pc, caller, has_more_interrupts,
       approval_decisions, tools_requiring_approval, turns, resumes,
       nextCallId, executed, lastStep, gateOut, lastDispatch, lastResume,
       resumedIds, decidedIds, rejectedIds, replay, fn >>

stateVars ==
    << messages, allowed_tools, human_in_loop_enabled, needs_approval,
       pending_tool_calls >>

ghostVars ==
    << gateOut, lastDispatch, lastResume, resumedIds, decidedIds, rejectedIds,
       replay, fn >>

NoDecisions == [ n \in ModelToolNames |-> "none" ]

NoGate ==
    [ ran |-> FALSE, flag |-> "absent", raised |-> FALSE, calls |-> << >>,
      needs_approval |-> FALSE, pending_tool_calls |-> << >> ]

NoResume ==
    [ kind |-> "none", suspended |-> FALSE, approved |-> {}, rejected |-> {},
      batch |-> << >>, pending |-> << >>, decisions |-> NoDecisions ]

NoReplay == [ on |-> FALSE, once |-> << >> ]

NoFn == [ op |-> "none" ]

\* the thread before its first message, for a deployment whose
\* tools_requiring_approval setting is required
InitWith(required) ==
    /\ messages = << >>
    /\ allowed_tools = << >>
    /\ human_in_loop_enabled = "absent"
    /\ needs_approval = FALSE
    /\ pending_tool_calls = << >>
    /\ next_node = "none"
    /\ pc = "idle"
    /\ caller = "none"
    /\ has_more_interrupts = FALSE
    /\ approval_decisions = NoDecisions
    /\ tools_requiring_approval = required
    /\ turns = 0
    /\ resumes = 0
    /\ nextCallId = 1
    /\ executed = << >>
    /\ lastStep = "init"
    /\ gateOut = NoGate
    /\ lastDispatch = << >>
    /\ lastResume = NoResume
    /\ resumedIds = {}
    /\ decidedIds = {}
    /\ rejectedIds = {}
    /\ replay = NoReplay

Init == InitWith(DefaultToolsRequiringApproval) /\ fn = NoFn

(* --------------------- end of a run: handler returns ------------------- *)
\* render_approval_ui lines 277-279: only Submit Decisions clears the
\* per-tool decisions, and only when no further interrupt is reported
DecisionsAfter(who, more, decisions) ==
    IF who = "submit" /\ ~more THEN NoDecisions ELSE decisions

\* variant: the handler does not read state.next after the run
Return_no_more_interrupts(who, nxt) ==
    /\ pc' = "idle"
    /\ next_node' = nxt
    /\ has_more_interrupts' = FALSE
    /\ approval_decisions' = DecisionsAfter(who, nxt = "tools", approval_decisions)

\* the run stops (END or the interrupt before tools) and control returns to
\* the handler, which reads state.next
Return(who, nxt) ==
    /\ pc' = "idle"
    /\ next_node' = nxt
    /\ has_more_interrupts' = (who # "chat" /\ nxt = "tools")
    /\ approval_decisions' = DecisionsAfter(who, nxt = "tools", approval_decisions)

(* ------------------------------ graph run ------------------------------ *)
\* variant: chat_node also returns the key allowed_tools
StateUpdateKeys_chat_writes_allowed(node) ==
    CASE node = "intent_classifier" -> { "allowed_tools" }
      [] node = "chat_node" -> { "messages", "allowed_tools" }
      [] node = "approval_check" -> { "needs_approval", "pending_tool_calls" }
      [] node = "tools" -> { "messages" }
      [] node = "update_state" -> { "messages", "needs_approval" }

\* the ChatState keys of the update each graph node returns, and of the
\* update handle_approval_and_resume passes to update_state (its keys
\* approved_tools and rejected_tools are no fields of ChatState)
StateUpdateKeys(node) ==
    CASE node = "intent_classifier" -> { "allowed_tools" }
      [] node = "chat_node" -> { "messages" }
      [] node = "approval_check" -> { "needs_approval", "pending_tool_calls" }
      [] node = "tools" -> { "messages" }
      [] node = "update_state" -> { "messages", "needs_approval" }

\* allowed_tools after the update of node: a field the update does not
\* name keeps its value
AllowedAfter(node, allowed) ==
    IF "allowed_tools" \in StateUpdateKeys(node) THEN << >> ELSE allowed

CallIds(calls) == { calls[k].id : k \in 1..Len(calls) }
CallNames(calls) == { calls[k].name : k \in 1..Len(calls) }

\* the tool calls of the last tool-calling AIMessage (empty when none)
LastBatch(msgs) ==
    IF LastAIIndex(msgs) = 0 THEN << >> ELSE msgs[LastAIIndex(msgs)].tool_calls

\* the value the turn input gives human_in_loop_enabled: "absent" leaves the
\* stored field as it is
TurnFlag(stored, given) == IF given = "absent" THEN stored ELSE given

\* chat input: chatbot.stream({"messages": [HumanMessage]}, config) starts a
\* run at START; tasks left pending by an earlier interrupt are discarded
UserMessage(given, limit) ==
    /\ pc = "idle"
    /\ turns < limit
    /\ turns' = turns + 1
    /\ messages' = add_messages(messages, << HumanMessage >>)
    /\ human_in_loop_enabled' = TurnFlag(human_in_loop_enabled, given)
    /\ pc' = "intent_classifier"
    /\ next_node' = "none"
    /\ caller' = "chat"
    /\ lastStep' = "user_message"
    /\ replay' = NoReplay
    /\ UNCHANGED << allowed_tools, needs_approval, pending_tool_calls,
                    has_more_interrupts, approval_decisions,
                    tools_requiring_approval, resumes, nextCallId, executed,
                    gateOut, lastDispatch, lastResume, resumedIds, decidedIds,
                    rejectedIds, fn >>

SubmitUserMessage(given) == UserMessage(given, MaxTurns)

\* chat input used while the run is stopped before the tools node: the input
\* box is drawn on every rerun, whatever state.next holds
InterruptingUserMessage(given) ==
    /\ next_node = "tools"
    /\ UserMessage(given, MaxTurns + MaxInterrupting)

\* graph node intent_classifier, then the edge to chat_node
IntentClassifierStep ==
    /\ pc = "intent_classifier"
    /\ \E script \in GraphClassifierScripts :
          allowed_tools' = intent_classifier_node(messages, script)
    /\ pc' = "chat_node"
    /\ lastStep' = "intent_classifier"
    /\ UNCHANGED << messages, human_in_loop_enabled, needs_approval,
                    pending_tool_calls, next_node, caller, has_more_interrupts,
                    approval_decisions, tools_requiring_approval, turns,
                    resumes, nextCallId, executed >>
    /\ UNCHANGED ghostVars

\* graph node chat_node, then the conditional edge tools_condition:
\* approval_check when the answer carries tool calls, END otherwise
ChatNodeStep ==
    /\ pc = "chat_node"
    /\ \E script \in GraphChatScripts :
       \E calls \in (IF script[Len(script)] = "tools"
                      THEN Batches(nextCallId) ELSE { << >> }) :
          LET out == chat_node(script, calls, allowed_tools)
              merged == add_messages(messages, out.messages)
          IN  /\ ~out.raised
              /\ messages' = merged
              /\ nextCallId' = nextCallId + Len(LastBatch(out.messages))
              /\ IF tools_condition(merged) = "tools"
                 THEN /\ pc' = "approval_check"
                      /\ UNCHANGED << next_node, has_more_interrupts, approval_decisions >>
                 ELSE Return(caller, "end")
    /\ lastStep' = "chat_node"
    /\ allowed_tools' = AllowedAfter("chat_node", allowed_tools)
    /\ UNCHANGED << human_in_loop_enabled, needs_approval,
                    pending_tool_calls, caller, tools_requiring_approval,
                    turns, resumes, executed >>
    /\ UNCHANGED ghostVars

\* graph node approval_check, then should_interrupt (both routes name the
\* tools node) and interrupt_before=["tools"]: the run stops before tools
ApprovalCheck(raised) ==
    /\ pc = "approval_check"
    /\ LET out == approval_check_node(messages, human_in_loop_enabled,
                                       tools_requiring_approval, raised)
       IN  /\ needs_approval' = out.needs_approval
           /\ pending_tool_calls' = out.pending_tool_calls
           /\ gateOut' = [ ran |-> TRUE,
                           flag |-> human_in_loop_enabled,
                           raised |-> raised,
                           calls |-> LastBatch(messages),
                           needs_approval |-> out.needs_approval,
                           pending_tool_calls |-> out.pending_tool_calls ]
           /\ should_interrupt(out.needs_approval) \in { "interrupt", "tools" }
    /\ Return(caller, "tools")
    /\ lastStep' = IF raised THEN "approval_check_error" ELSE "approval_check"
    /\ allowed_tools' = AllowedAfter("approval_check", allowed_tools)
    /\ UNCHANGED << messages, human_in_loop_enabled, caller,
                    tools_requiring_approval, turns, resumes, nextCallId,
                    executed, lastDispatch, lastResume, resumedIds,
                    decidedIds, rejectedIds, replay, fn >>

ApprovalCheckStep == ApprovalCheck(FALSE)

\* the except branch of approval_check_node (lines 139-145)
ApprovalCheckError == ApprovalCheck(TRUE)

\* graph node tools (FilteredToolNode), then the edge back to chat_node
ToolsStep ==
    /\ pc = "tools"
    /\ messages' = add_messages(messages, FilteredToolNode(messages))
    /\ executed' = executed \o
          [ k \in 1..Len(FilteredToolNode(messages)) |->
              [ id |-> FilteredToolNode(messages)[k].tool_call_id,
                name |-> FilteredToolNode(messages)[k].name,
                enabled |-> StateGetFlag(human_in_loop_enabled) ] ]
    /\ lastDispatch' = DispatchedIds(messages)
    /\ pc' = "chat_node"
    /\ lastStep' = "tools"
    /\ allowed_tools' = AllowedAfter("tools", allowed_tools)
    /\ UNCHANGED << human_in_loop_enabled, needs_approval,
                    pending_tool_calls, next_node, caller, has_more_interrupts,
                    approval_decisions, tools_requiring_approval, turns,
                    resumes, nextCallId, gateOut, lastResume, resumedIds,
                    decidedIds, rejectedIds, replay, fn >>

(* --------------------------- resume handlers --------------------------- *)
\* handle_approval_and_resume(config, approved_tools, rejected_tools, ...)
\* called by the button who: get_state, rejection messages, update_state and
\* chatbot.stream(None); its last lines run when the run it starts returns
handle_approval_and_resume(who, approved_tools, rejected_tools) ==
    LET rej == rejection_messages(messages, rejected_tools)
        new_messages == messages \o rej
        merged == add_messages(messages, new_messages)
        suspended == next_node = "tools"
        batch == LastBatch(messages)
        rejIds == { batch[k].id : k \in { j \in 1..Len(batch) :
                                            batch[j].name \in rejected_tools } }
        again == /\ lastResume.kind \in { "approve_all", "reject_all", "submit" }
                 /\ lastResume.suspended
                 /\ lastResume.approved = approved_tools
                 /\ lastResume.rejected = rejected_tools
                 /\ lastResume.batch = batch
    IN  /\ replay' = IF again THEN [ on |-> TRUE, once |-> messages ] ELSE NoReplay
        /\ lastResume' =
              [ kind |-> who, suspended |-> suspended,
                approved |-> approved_tools, rejected |-> rejected_tools,
                batch |-> LastBatch(messages), pending |-> pending_tool_calls,
                decisions |-> approval_decisions ]
        /\ caller' = who
        /\ IF LastAIIndex(messages) = 0
           THEN \* lines 53-55: nothing to resume
                /\ Return(who, next_node)
                /\ UNCHANGED << messages, needs_approval, resumedIds,
                                decidedIds, rejectedIds >>
           ELSE /\ messages' = merged
                /\ needs_approval' = FALSE
                /\ rejectedIds' = IF suspended THEN rejectedIds \cup rejIds
                                  ELSE rejectedIds
                /\ resumedIds' = IF suspended
                                 THEN resumedIds \cup CallIds(LastBatch(messages))
                                 ELSE resumedIds
                /\ decidedIds' = IF suspended /\ needs_approval
                                 THEN decidedIds \cup CallIds(pending_tool_calls)
                                 ELSE decidedIds
                /\ IF suspended
                   THEN \* update as approval_check keeps tools next; stream(None) runs it
                        /\ pc' = "tools"
                        /\ next_node' = "none"
                        /\ UNCHANGED << has_more_interrupts, approval_decisions >>
                   ELSE IF next_node = "end" /\ tools_condition(merged) = "tools"
                   THEN \* update as chat_node re-evaluates tools_condition
                        /\ pc' = "approval_check"
                        /\ next_node' = "none"
                        /\ UNCHANGED << has_more_interrupts, approval_decisions >>
                   ELSE Return(who, next_node)
        /\ resumes' = resumes + 1
        /\ allowed_tools' = IF LastAIIndex(messages) = 0 THEN allowed_tools
                            ELSE AllowedAfter("update_state", allowed_tools)
        /\ UNCHANGED << human_in_loop_enabled, pending_tool_calls,
                        tools_requiring_approval, turns, nextCallId, executed,
                        gateOut, lastDispatch, fn >>

\* render_approval_ui is drawn with its buttons when the stored state holds
\* pending_tool_calls (line 177)
ApprovalUIShown == pc = "idle" /\ pending_tool_calls # << >>

\* button "Approve All" (lines 188-202)
ApproveAll ==
    /\ ApprovalUIShown
    /\ resumes < MaxResumes
    /\ handle_approval_and_resume("approve_all", CallNames(pending_tool_calls), {})
    /\ lastStep' = "approve_all"

\* button "Reject All" (lines 205-219)
RejectAll ==
    /\ ApprovalUIShown
    /\ resumes < MaxResumes
    /\ handle_approval_and_resume("reject_all", {}, CallNames(pending_tool_calls))
    /\ lastStep' = "reject_all"

\* per-tool buttons "Approve" / "Reject" (lines 224-244)
ClickDecision(decision) ==
    /\ ApprovalUIShown
    /\ \E n \in CallNames(pending_tool_calls) :
          /\ n \in ModelToolNames
          /\ approval_decisions[n] # decision
          /\ approval_decisions' = [ approval_decisions EXCEPT ![n] = decision ]
    /\ lastStep' = "click"
    /\ UNCHANGED << stateVars, next_node, pc, caller, has_more_interrupts,
                    tools_requiring_approval, turns, resumes, nextCallId, executed >>
    /\ UNCHANGED ghostVars

ClickApprove == ClickDecision("approved")

ClickReject == ClickDecision("rejected")

\* names with a given decision in st.session_state["approval_decisions"]
Decided(decisions, decision) == { n \in DOMAIN decisions : decisions[n] = decision }

\* variant: the undecided pending names are not added
submit_rejected_explicit_only(decisions, pending) == Decided(decisions, "rejected")

\* lines 251-266: the rejected list Submit Decisions passes on, the explicit
\* rejections extended by the pending names that have no decision
submit_rejected(decisions, pending) ==
    Decided(decisions, "rejected")
        \cup (CallNames(pending) \ (Decided(decisions, "approved")
                                       \cup Decided(decisions, "rejected")))

\* button "Submit Decisions" (lines 249-281)
SubmitDecisions ==
    /\ ApprovalUIShown
    /\ approval_decisions # NoDecisions
    /\ resumes < MaxResumes
    /\ handle_approval_and_resume("submit",
                                  Decided(approval_decisions, "approved"),
                                  submit_rejected(approval_decisions, pending_tool_calls))
    /\ lastStep' = "submit"

\* render_approval_ui case 2 (lines 284-301) with handle_auto_resume:
\* nothing pending but the run stopped before tools
AutoResume ==
    /\ pc = "idle"
    /\ pending_tool_calls = << >>
    /\ next_node = "tools"
    /\ resumes < MaxResumes
    /\ resumes' = resumes + 1
    /\ pc' = "tools"
    /\ next_node' = "none"
    /\ caller' = "auto"
    /\ resumedIds' = resumedIds \cup CallIds(LastBatch(messages))
    /\ replay' = NoReplay
    /\ lastResume' = [ NoResume EXCEPT !.kind = "auto", !.suspended = TRUE,
                                       !.batch = LastBatch(messages) ]
    /\ lastStep' = "auto_resume"
    /\ UNCHANGED << stateVars, has_more_interrupts, approval_decisions,
                    tools_requiring_approval, turns, nextCallId, executed,
                    gateOut, lastDispatch, decidedIds, rejectedIds, fn >>

(* --------------------------- specifications ---------------------------- *)
Next ==
    \/ \E given \in { "absent", "true", "false" } : SubmitUserMessage(given)
    \/ IntentClassifierStep
    \/ ChatNodeStep
    \/ ApprovalCheckStep
    \/ ToolsStep
    \/ ApproveAll
    \/ RejectAll
    \/ ClickApprove
    \/ ClickReject
    \/ SubmitDecisions
    \/ AutoResume

Spec == Init /\ [][Next]_vars

\* the same program with the except branch of approval_check_node taken
NextFault == Next \/ ApprovalCheckError

SpecFault == Init /\ [][NextFault]_vars

\* the same program deployed with every modelled tool requiring approval
InitStrict == InitWith(StrictToolsRequiringApproval) /\ fn = NoFn

SpecStrict == InitStrict /\ [][Next]_vars

\* the same program with the chat input also used while the thread is
\* stopped before the tools node
NextInterrupt ==
    \/ Next
    \/ \E given \in { "absent", "true", "false" } : InterruptingUserMessage(given)

SpecInterrupt == Init /\ [][NextInterrupt]_vars

(* ---------------- check_approval_required on its own ------------------- *)
\* lists of pending tool calls with distinct ids, and lists of names that
\* settings.tools_requiring_approval may hold
GateCalls ==
    { [ k \in 1..Len(names) |-> [ name |-> names[k], id |-> k ] ] :
        names \in SeqsUpTo(ModelToolNames, MaxBatch) }

GateRequired ==
    SeqsUpTo(ModelToolNames, 1)
        \cup { DefaultToolsRequiringApproval, StrictToolsRequiringApproval }

InitGate ==
    /\ InitWith(DefaultToolsRequiringApproval)
    /\ \E tcs \in GateCalls, req \in GateRequired, flag \in BOOLEAN :
          fn = [ op |-> "gate_in", tool_calls |-> tcs, required |-> req,
                 enabled |-> flag ]

\* one call of check_approval_required on the drawn input
GateApply ==
    /\ fn.op = "gate_in"
    /\ LET out == check_approval_required(fn.tool_calls, fn.enabled, fn.required)
       IN  fn' = [ op |-> "gate_out", tool_calls |-> fn.tool_calls,
                   required |-> fn.required, enabled |-> fn.enabled,
                   need |-> out[1], auto |-> out[2] ]
    /\ UNCHANGED << stateVars, next_node, pc, caller, has_more_interrupts,
                    approval_decisions, tools_requiring_approval, turns,
                    resumes, nextCallId, executed, lastStep, gateOut,
                    lastDispatch, lastResume, resumedIds, decidedIds,
                    rejectedIds, replay >>

SpecGate == InitGate /\ [][GateApply]_vars

(* ---------------- intent_classifier_node on its own -------------------- *)
\* a function applied on its own changes fn only
FunctionStep ==
    UNCHANGED << stateVars, next_node, pc, caller, has_more_interrupts,
                 approval_decisions, tools_requiring_approval, turns,
                 resumes, nextCallId, executed, lastStep, gateOut,
                 lastDispatch, lastResume, resumedIds, decidedIds,
                 rejectedIds, replay >>

\* histories the node is called on: empty, a first user message, a user
\* message after a finished turn, and lists that end with an assistant or a
\* tool message
ClassifierHistories ==
    LET call == << [ name |-> "calculator", id |-> 1 ] >>
        h1 == add_messages(<< >>, << HumanMessage >>)
        h2 == add_messages(h1, << AIMessage("answer", << >>) >>)
        h3 == add_messages(h2, << HumanMessage >>)
        h4 == add_messages(h1, << AIMessage("answer", call),
                                  ToolMessage(ToolResultText, 1, "calculator") >>)
    IN  { << >>, h1, h2, h3, h4 }

InitClassifier ==
    /\ InitWith(DefaultToolsRequiringApproval)
    /\ \E msgs \in ClassifierHistories, script \in ClassifierScripts :
          fn = [ op |-> "classify_in", msgs |-> msgs, script |-> script ]

\* one call of intent_classifier_node on the drawn state and model replies
ClassifierApply ==
    /\ fn.op = "classify_in"
    /\ LET out == intent_classifier_call(fn.msgs, fn.script)
       IN  fn' = [ op |-> "classify_out", msgs |-> fn.msgs, script |-> fn.script,
                   raised |-> out.raised, allowed_tools |-> out.allowed_tools,
                   invocations |-> out.invocations ]
    /\ FunctionStep

SpecClassifier == InitClassifier /\ [][ClassifierApply]_vars

(* ------------------------- chat_node on its own ------------------------ *)
\* tool calls a tool-calling answer carries, and the allowed_tools in state
ChatCalls ==
    { << [ name |-> "calculator", id |-> 1 ] >>,
      << [ name |-> "file_operations", id |-> 1 ], [ name |-> "web_search", id |-> 2 ] >> }

ChatAllowed == { << >>, << "calculator", "file_operations" >> }

InitChat ==
    /\ InitWith(DefaultToolsRequiringApproval)
    /\ \E script \in ChatScripts, calls \in ChatCalls, allowed \in ChatAllowed :
          fn = [ op |-> "chat_in", script |-> script, calls |-> calls,
                 allowed |-> allowed,
                 msgs |-> add_messages(<< >>, << HumanMessage >>) ]

\* one call of chat_node on the drawn state and model outcomes; the graph
\* merges the returned messages into the history and routes on the result
ChatApply ==
    /\ fn.op = "chat_in"
    /\ LET out == chat_node(fn.script, fn.calls, fn.allowed)
       IN  fn' = [ op |-> "chat_out", script |-> fn.script, calls |-> fn.calls,
                   allowed |-> fn.allowed, msgs |-> fn.msgs,
                   raised |-> out.raised, messages |-> out.messages,
                   invoked |-> out.invoked,
                   prompts |-> chat_prompts(0, fn.script, with_system_prompt(fn.msgs)),
                   merged |-> add_messages(fn.msgs, out.messages),
                   route |-> tools_condition(add_messages(fn.msgs, out.messages)) ]
    /\ FunctionStep

SpecChat == InitChat /\ [][ChatApply]_vars

(* ------------------------------ properties ----------------------------- *)
\* number of ToolMessages in msgs that answer call id
ToolMsgCount(msgs, id) ==
    Cardinality({ i \in 1..Len(msgs) :
                    msgs[i].type = "tool" /\ msgs[i].tool_call_id = id })

\* msgs holds a ToolMessage for call id that carries the rejection text
HasRejection(msgs, id) ==
    \E i \in 1..Len(msgs) :
        /\ msgs[i].type = "tool"
        /\ msgs[i].tool_call_id = id
        /\ msgs[i].content = RejectionText

ExecutedIds == { executed[k].id : k \in 1..Len(executed) }

\* ids of the calls of the last batch that no ToolMessage answers, in order
UnansweredIds(msgs) ==
    LET open == SelectSeq(LastBatch(msgs), LAMBDA tc : ToolMsgCount(msgs, tc.id) = 0)
    IN  [ k \in 1..Len(open) |-> open[k].id ]

\* position of call id in the list calls (0 when it is not there)
PositionOf(calls, id) ==
    IF \E k \in 1..Len(calls) : calls[k].id = id
    THEN CHOOSE k \in 1..Len(calls) : calls[k].id = id
    ELSE 0

\* C1: once the thread is at rest, every tool-call id of a batch that was
\* resumed from a suspension has exactly one ToolMessage in the history.
C1_ExactlyOneToolMessage ==
    pc = "idle" => \A id \in resumedIds : ToolMsgCount(messages, id) = 1

C3_RejectedNeverRun ==
    \A id \in rejectedIds : HasRejection(messages, id) /\ id \notin ExecutedIds

C3_Witness ==
    /\ rejectedIds # {}
    /\ lastStep = "tools"
    /\ lastDispatch # << >>
    /\ \E id \in rejectedIds : id \in CallIds(LastBatch(messages))

\* C4: after Submit Decisions on a suspended batch, every pending call whose
\* tool has no "approved" decision (rejected or undecided) has a rejection
\* ToolMessage and is not executed; the approved ones are executed.
C4_UndecidedRejected ==
    (lastResume.kind = "submit" /\ lastResume.suspended) =>
        \A k \in 1..Len(lastResume.batch) :
            LET c == lastResume.batch[k]
            IN  c.name \in CallNames(lastResume.pending) =>
                  IF lastResume.decisions[c.name] = "approved"
                  THEN /\ ~HasRejection(messages, c.id)
                       /\ (pc # "tools" => c.id \in ExecutedIds)
                  ELSE /\ HasRejection(messages, c.id)
                       /\ c.id \notin ExecutedIds

\* the batch {A, B, C}: A approved, B rejected, C undecided, only A executed
C4_Witness ==
    /\ lastResume.kind = "submit"
    /\ lastResume.suspended
    /\ Len(lastResume.pending) = 3
    /\ Cardinality(CallNames(lastResume.pending)) = 3
    /\ Cardinality(Decided(lastResume.decisions, "approved")) = 1
    /\ Cardinality(Decided(lastResume.decisions, "rejected")) = 1
    /\ lastStep = "tools"
    /\ Len(lastDispatch) = 1
    /\ Len(executed) = 1

\* C5: a second handle_approval_and_resume with the same approved and
\* rejected sets on the same batch leaves the history the first call left.
C5_IdempotentResume ==
    (replay.on /\ pc = "idle") => messages = replay.once

\* C6: the tools node hands to the tools exactly the calls of the last batch
\* that have no ToolMessage in the history, in batch order, and adds one
\* ToolMessage for each; with no such call it adds nothing.
C6_DispatchUnanswered ==
    lastStep = "tools" =>
        LET n == Len(lastDispatch)
            prior == SubSeq(messages, 1, Len(messages) - n)
        IN  /\ n <= Len(messages)
            /\ lastDispatch = UnansweredIds(prior)
            /\ n <= Len(executed)
            /\ \A k \in 1..n :
                  /\ executed[Len(executed) - n + k].id = lastDispatch[k]
                  /\ messages[Len(messages) - n + k].type = "tool"
                  /\ messages[Len(messages) - n + k].tool_call_id = lastDispatch[k]

\* a partially answered batch: some calls rejected, the others dispatched
C6_Witness ==
    /\ lastStep = "tools"
    /\ lastDispatch # << >>
    /\ Len(lastDispatch) < Len(LastBatch(messages))

\* C7: check_approval_required returns two lists that are disjoint and that
\* together hold every input call exactly once.
C7_PartitionComplete ==
    fn.op = "gate_out" =>
        /\ Range(fn.need) \cup Range(fn.auto) = Range(fn.tool_calls)
        /\ Range(fn.need) \cap Range(fn.auto) = {}
        /\ Len(fn.need) + Len(fn.auto) = Len(fn.tool_calls)

C7_Witness ==
    fn.op = "gate_out" /\ fn.need # << >> /\ fn.auto # << >>

\* C8: with human_in_loop_enabled false or absent, approval_check_node
\* leaves needs_approval false and pending_tool_calls empty.
C8_DisabledNeverAsks ==
    (lastStep \in { "approval_check", "approval_check_error" }
        /\ human_in_loop_enabled # "true")
        => (~needs_approval /\ pending_tool_calls = << >>
            /\ ~gateOut.needs_approval /\ gateOut.pending_tool_calls = << >>)

C8_Witness ==
    /\ lastStep = "approval_check"
    /\ human_in_loop_enabled # "true"
    /\ \E k \in 1..Len(gateOut.calls) :
          gateOut.calls[k].name \in Range(tools_requiring_approval)

\* C9: with approval enabled, pending_tool_calls is exactly the calls of the
\* last batch whose name is in tools_requiring_approval, in batch order,
\* and needs_approval is true exactly when there is such a call.
C9_EnabledAsksExactly ==
    (gateOut.ran /\ gateOut.flag = "true" /\ ~gateOut.raised) =>
        LET calls == gateOut.calls
            pend == gateOut.pending_tool_calls
        IN  /\ \A k \in 1..Len(calls) :
                  (calls[k].name \in Range(tools_requiring_approval))
                      <=> (\E j \in 1..Len(pend) : pend[j] = calls[k])
            /\ \A j \in 1..Len(pend) : PositionOf(calls, pend[j].id) # 0
            /\ \A i, j \in 1..Len(pend) :
                  i < j => PositionOf(calls, pend[i].id) < PositionOf(calls, pend[j].id)
            /\ gateOut.needs_approval = (pend # << >>)
            /\ (lastStep = "approval_check" =>
                  needs_approval = gateOut.needs_approval
                  /\ pending_tool_calls = pend)

C9_Witness ==
    /\ lastStep = "approval_check"
    /\ gateOut.flag = "true"
    /\ gateOut.needs_approval
    /\ Len(gateOut.pending_tool_calls) = 2
    /\ Len(gateOut.calls) = 3

\* C10: when approval_check_node hits an internal error it returns
\* needs_approval false and no pending calls, and the run stops before the
\* tools node in the state from which the tools are resumed automatically.
C10_FailOpen ==
    lastStep = "approval_check_error" =>
        /\ ~needs_approval
        /\ pending_tool_calls = << >>
        /\ pc = "idle"
        /\ next_node = "tools"

C10_Witness ==
    /\ lastStep = "approval_check_error"
    /\ human_in_loop_enabled = "true"
    /\ \E k \in 1..Len(gateOut.calls) :
          gateOut.calls[k].name \in Range(tools_requiring_approval)

\* the classifier was asked (the last message is a user message)
ClassifierAsked(msgs) == msgs # << >> /\ msgs[Len(msgs)].type = "human"

\* every reply of the script is unparseable or not an array
AllBad(script) ==
    Len(script) = max_schema_retries /\ \A i \in 1..Len(script) : script[i].kind = "bad"

\* C11: intent_classifier_node never raises, and it returns the full catalog
\* when the last message is not a user message, when every attempt up to the
\* retry bound gave an unusable reply, and when an unexpected error occurred.
C11_ClassifierFailsOpen ==
    fn.op = "classify_out" =>
        /\ ~fn.raised
        /\ (~ClassifierAsked(fn.msgs) \/ AllBad(fn.script)
              \/ fn.script[Len(fn.script)].kind = "error")
             => fn.allowed_tools = ALL_TOOLS

C11_Witness ==
    /\ fn.op = "classify_out"
    /\ ClassifierAsked(fn.msgs)
    /\ fn.script[Len(fn.script)].kind = "error"
    /\ Len(fn.script) = 2
    /\ fn.allowed_tools = ALL_TOOLS

\* C12: whatever the outcome of intent_classifier_node, allowed_tools holds
\* only catalog names: unknown names the classifier returned are dropped.
C12_OnlyCatalogNames ==
    fn.op = "classify_out" =>
        /\ Range(fn.allowed_tools) \subseteq Range(ALL_TOOLS)
        /\ (ClassifierAsked(fn.msgs) /\ fn.script[Len(fn.script)].kind = "array")
             => fn.allowed_tools =
                  SelectSeq(fn.script[Len(fn.script)].names,
                            LAMBDA n : \E i \in 1..Len(ALL_TOOLS) : ALL_TOOLS[i] = n)

C12_Witness ==
    /\ fn.op = "classify_out"
    /\ ClassifierAsked(fn.msgs)
    /\ fn.script[Len(fn.script)].kind = "array"
    /\ "not_a_tool" \in Range(fn.script[Len(fn.script)].names)
    /\ fn.allowed_tools = << "file_operations" >>

\* invocations with tools bound in strict mode, and without tools
StrictInvocations(invoked) ==
    Cardinality({ i \in 1..Len(invoked) : invoked[i].strict /\ invoked[i].tools # << >> })

NoToolsInvocations(invoked) ==
    Cardinality({ i \in 1..Len(invoked) : invoked[i].tools = << >> })

\* number of schema errors the script starts with
SchemaPrefix(script) ==
    Cardinality({ i \in 1..Len(script) : \A j \in 1..i : script[j] \in SchemaErrors })

\* C13: one chat_node call makes at most max_schema_retries strict
\* invocations with tools bound, and it invokes the model without tools only
\* after max_schema_retries strict invocations that all failed with a schema
\* error; every invocation before the fallback is a strict one.
C13_StrictBound ==
    fn.op = "chat_out" =>
        /\ StrictInvocations(fn.invoked) <= max_schema_retries
        /\ NoToolsInvocations(fn.invoked) > 0 =>
             /\ StrictInvocations(fn.invoked) = max_schema_retries
             /\ SchemaPrefix(fn.script) >= max_schema_retries
             /\ \A i \in 1..max_schema_retries : fn.invoked[i].strict
        /\ SchemaPrefix(fn.script) < max_schema_retries =>
             StrictInvocations(fn.invoked) = SchemaPrefix(fn.script) + 1

C13_Witness ==
    /\ fn.op = "chat_out"
    /\ StrictInvocations(fn.invoked) = max_schema_retries
    /\ NoToolsInvocations(fn.invoked) = 1
    /\ fn.script[1] # fn.script[2]

\* C14: after max_schema_retries schema errors chat_node makes exactly one
\* more invocation, with no tools bound and strict off; when that one fails
\* too it returns one assistant message without tool calls that says the
\* request could not be processed, and it does not raise.
C14_FallbackOnce ==
    (fn.op = "chat_out" /\ SchemaPrefix(fn.script) >= max_schema_retries) =>
        /\ Len(fn.invoked) = max_schema_retries + 1
        /\ fn.invoked[Len(fn.invoked)] = [ tools |-> << >>, strict |-> FALSE ]
        /\ NoToolsInvocations(fn.invoked) = 1
        /\ ~fn.raised
        /\ fn.script[Len(fn.script)] \notin { "final", "tools" } =>
             fn.messages = << AIMessage("apology", << >>) >>

C14_Witness ==
    /\ fn.op = "chat_out"
    /\ SchemaPrefix(fn.script) = max_schema_retries
    /\ fn.script[Len(fn.script)] = "other"
    /\ fn.messages = << AIMessage("apology", << >>) >>

\* C15: a rate-limit error of a strict invocation ends the call: no further
\* invocation, one assistant message without tool calls that reports the
\* condition, and the graph routes to END.
C15_RateLimitEndsTurn ==
    (fn.op = "chat_out" /\ SchemaPrefix(fn.script) < max_schema_retries
        /\ fn.script[Len(fn.script)] = "rate_limit") =>
        /\ Len(fn.invoked) = Len(fn.script)
        /\ NoToolsInvocations(fn.invoked) = 0
        /\ ~fn.raised
        /\ fn.messages = << AIMessage("rate_limit_error", << >>) >>
        /\ fn.route = "end"

C15_Witness ==
    /\ fn.op = "chat_out"
    /\ fn.script = << "validation", "rate_limit" >>
    /\ fn.route = "end"
    /\ Len(fn.invoked) = 2

\* C16: an error of a strict invocation that is neither a rate-limit nor a
\* schema/validation error leaves chat_node as an exception: no assistant
\* message is returned for it.
C16_OtherErrorPropagates ==
    (fn.op = "chat_out" /\ SchemaPrefix(fn.script) < max_schema_retries
        /\ fn.script[Len(fn.script)] = "other") =>
        /\ fn.raised
        /\ fn.messages = << >>
        /\ fn.merged = fn.msgs

\* C17: every chat_node call ends after a bounded number of invocations, and
\* when it returns it adds exactly one assistant message to the history.
C17_OneAssistantMessage ==
    fn.op = "chat_out" =>
        /\ Len(fn.invoked) <= max_schema_retries + 1
        /\ Len(fn.invoked) <= Len(fn.script)
        /\ ~fn.raised =>
             /\ Len(fn.messages) = 1
             /\ fn.messages[1].type = "ai"
             /\ Len(fn.merged) = Len(fn.msgs) + 1
             /\ SubSeq(fn.merged, 1, Len(fn.msgs)) = fn.msgs
             /\ fn.merged[Len(fn.merged)].type = "ai"
             /\ fn.merged[Len(fn.merged)].content = fn.messages[1].content
             /\ fn.merged[Len(fn.merged)].tool_calls = fn.messages[1].tool_calls

C17_Witness ==
    /\ fn.op = "chat_out"
    /\ ~fn.raised
    /\ fn.script = << "schema", "other" >>
    /\ Len(fn.merged) = 2

\* C18: the step after chat_node leads to approval_check exactly when the
\* new assistant message carries tool calls and to END otherwise, whatever
\* human_in_loop_enabled holds; the tools node is entered only from a stop
\* that approval_check left for the current batch.
C18_RouteThroughApproval ==
    [][ /\ (pc = "chat_node" /\ pc' # "chat_node") =>
              IF messages'[Len(messages')].tool_calls # << >>
              THEN pc' = "approval_check"
              ELSE pc' = "idle" /\ next_node' = "end"
        /\ (pc # "tools" /\ pc' = "tools") =>
              /\ pc = "idle"
              /\ next_node = "tools"
              /\ lastStep \in { "approval_check", "click" }
              /\ gateOut.ran
              /\ gateOut.calls = LastBatch(messages) ]_vars

C18_Witness ==
    /\ lastStep = "tools"
    /\ human_in_loop_enabled # "true"
    /\ gateOut.ran
    /\ lastDispatch # << >>
    /\ LastBatch(messages) = gateOut.calls

\* C19: a run hands control back before the turn has finished (it stops
\* before the tools node) only when needs_approval is true.
C19_StopOnlyForApproval ==
    (pc = "idle" /\ next_node = "tools") => needs_approval

\* C20: while the thread is stopped before the tools node with a batch
\* awaiting a decision, no user message is appended to the history.
C20_NoMessageWhileSuspended ==
    [][ (pc = "idle" /\ next_node = "tools" /\ needs_approval) =>
            ~(Len(messages') > Len(messages)
                /\ messages'[Len(messages')].type = "human") ]_vars

\* the calls of a batch whose tool is listed in required, in batch order
RequiringApproval(calls, required) ==
    SelectSeq(calls, LAMBDA tc : tc.name \in Range(required))

\* the run in flight or just returned was started by a resume handler on a
\* thread stopped before the tools node
ResumedRun == caller \in { "approve_all", "reject_all", "submit", "auto" }
                 /\ lastResume.suspended

\* C21: when the model answer that follows a resumed batch again requests a
\* tool that requires approval, with approval enabled, the thread stops
\* before the tools node again with needs_approval true and
\* pending_tool_calls holding the new calls that require approval, and the
\* resume handler reports has_more_interrupts true.
C21_MultiRoundApproval ==
    (lastStep = "approval_check" /\ ResumedRun /\ gateOut.flag = "true"
        /\ RequiringApproval(gateOut.calls, tools_requiring_approval) # << >>)
        => /\ pc = "idle"
           /\ next_node = "tools"
           /\ needs_approval
           /\ pending_tool_calls =
                 RequiringApproval(LastBatch(messages), tools_requiring_approval)
           /\ CallIds(pending_tool_calls) \cap CallIds(lastResume.batch) = {}
           /\ has_more_interrupts

\* a second round: the first batch was approved and executed, the next
\* answer asks for a tool that requires approval
C21_Witness ==
    /\ lastStep = "approval_check"
    /\ caller = "approve_all"
    /\ lastResume.suspended
    /\ lastResume.pending # << >>
    /\ executed # << >>
    /\ needs_approval
    /\ has_more_interrupts
    /\ CallIds(pending_tool_calls) \cap CallIds(lastResume.batch) = {}

\* indices of the ToolMessages of msgs that answer a call of the batch calls
AnswersOf(msgs, calls) ==
    { i \in 1..Len(msgs) :
        msgs[i].type = "tool" /\ msgs[i].tool_call_id \in CallIds(calls) }

\* C22: the ToolMessages that answer one assistant batch appear in the
\* history in the order of the calls of that batch, also when some calls
\* were rejected and others executed.
C22_BatchOrder ==
    \A a \in 1..Len(messages) :
        IsAIWithCalls(messages[a]) =>
            \A i, j \in AnswersOf(messages, messages[a].tool_calls) :
                i < j => PositionOf(messages[a].tool_calls, messages[i].tool_call_id)
                           <= PositionOf(messages[a].tool_calls, messages[j].tool_call_id)

\* s is a prefix of t
IsPrefix(s, t) == Len(s) <= Len(t) /\ SubSeq(t, 1, Len(s)) = s

\* no message id occurs twice in msgs
DistinctIds(msgs) ==
    \A i, j \in 1..Len(msgs) : msgs[i].mid = msgs[j].mid => i = j

\* C23: every graph step and every update_state call, the resume that
\* re-submits the whole list plus rejection messages included, leaves the
\* previous history as a prefix of the new one, and no message is in the
\* history twice.
C23_AppendOnly ==
    [][IsPrefix(messages, messages') /\ DistinctIds(messages')]_vars

\* a resume has re-submitted the list together with a rejection message
C23_Witness ==
    /\ lastStep \in { "reject_all", "submit" }
    /\ lastResume.suspended
    /\ Len(messages) >= 3
    /\ messages[Len(messages)].type = "tool"
    /\ messages[Len(messages)].content = RejectionText

\* C24: allowed_tools is written by intent_classifier_node only, which runs
\* first in the run every user message starts and computes the value
\* from the history; chat_node, approval_check, the tools node and the
\* resume handlers leave it as it is.
C24_AllowedToolsPerTurn ==
    [][/\ (allowed_tools' # allowed_tools => lastStep' = "intent_classifier")
       /\ (lastStep' = "user_message" => pc' = "intent_classifier")
       /\ (lastStep' = "intent_classifier" =>
              /\ pc = "intent_classifier"
              /\ \E script \in GraphClassifierScripts :
                    allowed_tools' = intent_classifier_node(messages, script))
       /\ (lastStep' \in { "chat_node", "approval_check", "tools", "approve_all",
                           "reject_all", "submit", "auto_resume" }
              => allowed_tools' = allowed_tools)]_vars

\* the second model invocation of the second turn, made after a resume,
\* with the allow-set the classifier chose for that turn
C24_Witness ==
    /\ turns = 2
    /\ lastStep = "chat_node"
    /\ ResumedRun
    /\ executed # << >>
    /\ allowed_tools = << "file_operations" >>

\* C25: every strict invocation of one chat_node call has the same tools
\* bound: the tools of the catalog whose name is in allowed_tools, in catalog
\* order, when allowed_tools is not empty, and the whole catalog when it is.
C25_BoundToolSet ==
    fn.op = "chat_out" =>
        \A i \in 1..Len(fn.invoked) :
            fn.invoked[i].strict =>
                /\ fn.invoked[i].tools = fn.invoked[1].tools
                /\ IF fn.allowed = << >>
                   THEN fn.invoked[i].tools = ALL_TOOLS
                   ELSE /\ Range(fn.invoked[i].tools)
                             = Range(ALL_TOOLS) \cap Range(fn.allowed)
                        /\ \A a, b \in 1..Len(fn.invoked[i].tools) :
                              a < b => \E x, y \in 1..Len(ALL_TOOLS) :
                                          /\ x < y
                                          /\ ALL_TOOLS[x] = fn.invoked[i].tools[a]
                                          /\ ALL_TOOLS[y] = fn.invoked[i].tools[b]

\* a call with a non-empty allow-set that retried after a schema error
C25_Witness ==
    /\ fn.op = "chat_out"
    /\ fn.allowed # << >>
    /\ Len(fn.invoked) >= 2
    /\ fn.invoked[1].strict
    /\ fn.invoked[2].strict
    /\ Len(fn.invoked[2].tools) = 2

\* position in msgs of the message with the id of m (0 when it is not there)
PositionOfMessage(msgs, m) ==
    IF \E i \in 1..Len(msgs) : msgs[i].mid = m.mid
    THEN CHOOSE i \in 1..Len(msgs) : msgs[i].mid = m.mid
    ELSE 0

\* C26: the context intent_classifier_node takes from the history is a list
\* of pairs, a user message and an assistant message; every assistant
\* message in it carries no tool calls, and its user message is the nearest
\* user message before it in the history.
C26_FinalAssistantOnly ==
    pc = "intent_classifier" =>
        LET ctx == context_messages(messages)
        IN  /\ Len(ctx) % 2 = 0
            /\ \A k \in 1..(Len(ctx) \div 2) :
                  LET h == PositionOfMessage(messages, ctx[2 * k - 1])
                      a == PositionOfMessage(messages, ctx[2 * k])
                  IN  /\ ctx[2 * k - 1].type = "human"
                      /\ ctx[2 * k].type = "ai"
                      /\ ctx[2 * k].tool_calls = << >>
                      /\ 0 < h /\ h < a
                      /\ \A x \in (h + 1)..(a - 1) : messages[x].type # "human"

\* names of the tools for which msgs holds a rejection ToolMessage that
\* answers a call with an id below id
RejectedBefore(msgs, id) ==
    { msgs[i].name : i \in { j \in 1..Len(msgs) :
                               /\ msgs[j].type = "tool"
                               /\ msgs[j].content = RejectionText
                               /\ msgs[j].tool_call_id < id } }

\* C29: a call of a tool that the user rejected earlier on the thread is
\* handled by the gate like any other call: with approval enabled the run
\* stops before the tools node with the call among pending_tool_calls,
\* unanswered and not executed, and the call is executed only after a
\* decision was submitted for it.
C29_RejectedToolAskedAgain ==
    /\ (lastStep = "approval_check" /\ gateOut.flag = "true") =>
          \A k \in 1..Len(gateOut.calls) :
              LET c == gateOut.calls[k]
              IN  c.name \in RejectedBefore(messages, c.id) =>
                    /\ needs_approval
                    /\ \E j \in 1..Len(pending_tool_calls) : pending_tool_calls[j] = c
                    /\ pc = "idle"
                    /\ next_node = "tools"
                    /\ ToolMsgCount(messages, c.id) = 0
                    /\ c.id \notin ExecutedIds
    /\ \A k \in 1..Len(executed) :
          (executed[k].enabled
              /\ executed[k].name \in RejectedBefore(messages, executed[k].id))
              => executed[k].id \in decidedIds

\* the tool rejected in the first round is requested again and the run
\* stops for it
C29_Witness ==
    /\ lastStep = "approval_check"
    /\ gateOut.flag = "true"
    /\ rejectedIds # {}
    /\ needs_approval
    /\ \E k \in 1..Len(gateOut.calls) :
          /\ gateOut.calls[k].name \in RejectedBefore(messages, gateOut.calls[k].id)
          /\ gateOut.calls[k].id \notin rejectedIds

(* ------------------- the classifier retry loop on its own -------------- *)
\* what the classifier model answers to its first, second, ... invocation,
\* whether or not the loop gets that far
ClassifierReplySequences ==
    { s \in SeqsUpTo(ClassifierReplies, max_schema_retries) :
        Len(s) = max_schema_retries }

InitClassifierLoop ==
    /\ InitWith(DefaultToolsRequiringApproval)
    /\ \E msgs \in ClassifierHistories, script \in ClassifierReplySequences :
          fn = [ op |-> "loop_in", msgs |-> msgs, script |-> script ]

\* one call of intent_classifier_node with the model answering as drawn
ClassifierLoopApply ==
    /\ fn.op = "loop_in"
    /\ LET out == intent_classifier_call(fn.msgs, fn.script)
       IN  fn' = [ op |-> "loop_out", msgs |-> fn.msgs, script |-> fn.script,
                   allowed_tools |-> out.allowed_tools,
                   invocations |-> out.invocations, prompts |-> out.prompts ]
    /\ FunctionStep

SpecClassifierLoop == InitClassifierLoop /\ [][ClassifierLoopApply]_vars

\* number of feedback messages among the messages of one prompt
FeedbackCount(prompt) ==
    Cardinality({ i \in 1..Len(prompt) : prompt[i] = FeedbackMessage })

MaxThreadBatch == 2
MaxThreadResumes == 1
MaxRestarts == 1

\* thread ids of two chats, and the configuration each handler passes on
ThreadIds == { "chat_a", "chat_b" }
Configs == { [ thread_id |-> t ] : t \in ThreadIds }

\* variant: the thread id of the configuration is not looked at
thread_key_shared(config) == "chat_a"

\* config["configurable"]["thread_id"]: the key under which the checkpointer
\* stores and finds the checkpoints of a thread
thread_key(config) == config.thread_id

\* the checkpoint of a thread that has none: no values, nothing to run
EmptyCheckpoint ==
    [ messages |-> << >>, allowed_tools |-> << >>,
      human_in_loop_enabled |-> "absent", needs_approval |-> FALSE,
      pending_tool_calls |-> << >>, next |-> "none" ]

NoReturn ==
    [ set |-> FALSE, messages |-> << >>, pending_tool_calls |-> << >>,
      next |-> "none" ]

\* a thread: its latest checkpoint (cp), the position of the run in flight
\* (pc), the counters that bound the exploration, and what the state was
\* when the last invocation returned (ret, an observation)
NewThread ==
    [ cp |-> EmptyCheckpoint, pc |-> "idle", turns |-> 0, resumes |-> 0,
      nextCallId |-> 1, ret |-> NoReturn ]

\* variant: the checkpoints are kept in process memory
checkpoints_after_restart_in_memory(cp) == EmptyCheckpoint

\* create_chatbot lines 82-86: SqliteSaver over the database file at
\* settings.database_path; the checkpoints written outlive the process
checkpoints_after_restart(cp) == cp

\* the end of a superstep or of update_state: the checkpoint is written; the
\* run goes on at pcNew, or has returned to its caller when pcNew is "idle"
Checkpointed(th, cp, pcNew) ==
    [ th EXCEPT !.cp = cp, !.pc = pcNew,
                !.ret = IF pcNew = "idle"
                        THEN [ set |-> TRUE, messages |-> cp.messages,
                               pending_tool_calls |-> cp.pending_tool_calls,
                               next |-> cp.next ]
                        ELSE NoReturn ]

\* batches the model answers with in the runs with two threads
ThreadBatches(first) ==
    { b \in Batches(first) :
        /\ Len(b) <= MaxThreadBatch
        /\ first + Len(b) - 1 <= MaxThreadBatch
        /\ CallNames(b) \subseteq { "calculator", "file_operations" } }

\* chat input on thread th: successors of th
ThreadUser(th) ==
    IF th.pc = "idle" /\ th.turns < MaxTurns
    THEN { Checkpointed([ th EXCEPT !.turns = @ + 1 ],
                        [ th.cp EXCEPT
                            !.messages = add_messages(@, << HumanMessage >>),
                            !.human_in_loop_enabled = TurnFlag(@, given),
                            !.next = "intent_classifier" ],
                        "intent_classifier") : given \in { "absent", "true" } }
    ELSE {}

\* node intent_classifier on thread th
ThreadClassifier(th) ==
    IF th.pc = "intent_classifier"
    THEN { Checkpointed(th,
                        [ th.cp EXCEPT
                            !.allowed_tools = intent_classifier_node(th.cp.messages, script),
                            !.next = "chat_node" ],
                        "chat_node") : script \in GraphClassifierScripts }
    ELSE {}

\* node chat_node and tools_condition on thread th
ThreadChat(th) ==
    IF th.pc = "chat_node"
    THEN UNION { { LET out == chat_node(script, calls, th.cp.allowed_tools)
                       merged == add_messages(th.cp.messages, out.messages)
                       route == tools_condition(merged)
                   IN  Checkpointed(
                         [ th EXCEPT !.nextCallId = @ + Len(LastBatch(out.messages)) ],
                         [ th.cp EXCEPT
                             !.messages = merged,
                             !.next = IF route = "tools" THEN "approval_check" ELSE "end" ],
                         IF route = "tools" THEN "approval_check" ELSE "idle")
                   : calls \in (IF script = << "tools" >>
                                THEN ThreadBatches(th.nextCallId) ELSE { << >> }) }
                 : script \in { << "final" >>, << "tools" >> } }
    ELSE {}

\* node approval_check on thread th, then the interrupt before tools
ThreadApproval(th) ==
    IF th.pc = "approval_check"
    THEN LET out == approval_check_node(th.cp.messages, th.cp.human_in_loop_enabled,
                                        DefaultToolsRequiringApproval, FALSE)
         IN  { Checkpointed(th,
                            [ th.cp EXCEPT
                                !.needs_approval = out.needs_approval,
                                !.pending_tool_calls = out.pending_tool_calls,
                                !.next = "tools" ],
                            "idle") }
    ELSE {}

\* node tools on thread th
ThreadTools(th) ==
    IF th.pc = "tools"
    THEN { Checkpointed(th,
                        [ th.cp EXCEPT
                            !.messages = add_messages(@, FilteredToolNode(@)),
                            !.next = "chat_node" ],
                        "chat_node") }
    ELSE {}

\* Approve All / Reject All on thread th: handle_approval_and_resume
ThreadResume(th) ==
    IF /\ th.pc = "idle"
       /\ th.cp.pending_tool_calls # << >>
       /\ th.cp.next = "tools"
       /\ th.resumes < MaxThreadResumes
    THEN { LET msgs == th.cp.messages
               new_messages == msgs \o rejection_messages(msgs, rejected_tools)
           IN  Checkpointed([ th EXCEPT !.resumes = @ + 1 ],
                            [ th.cp EXCEPT
                                !.messages = add_messages(msgs, new_messages),
                                !.needs_approval = FALSE ],
                            "tools")
           : rejected_tools \in { {}, CallNames(th.cp.pending_tool_calls) } }
    ELSE {}

\* handle_auto_resume on thread th
ThreadAutoResume(th) ==
    IF /\ th.pc = "idle"
       /\ th.cp.pending_tool_calls = << >>
       /\ th.cp.next = "tools"
       /\ th.resumes < MaxThreadResumes
    THEN { [ th EXCEPT !.resumes = @ + 1, !.pc = "tools", !.ret = NoReturn ] }
    ELSE {}

InitThreads ==
    /\ InitWith(DefaultToolsRequiringApproval)
    /\ fn = [ op |-> "threads", store |-> [ t \in ThreadIds |-> NewThread ],
              last |-> "none", restarts |-> 0 ]

\* the thread th is written to the store under the key of the configuration
WriteThread(config, th) ==
    fn' = [ fn EXCEPT !.store[thread_key(config)] = th,
                      !.last = config.thread_id ]

\* chatbot.get_state(config): the thread found under the key of the
\* configuration
ReadThread(config) == fn.store[thread_key(config)]

ThreadsUserMessage ==
    /\ fn.op = "threads"
    /\ \E config \in Configs :
          \E th \in ThreadUser(ReadThread(config)) : WriteThread(config, th)
    /\ FunctionStep

ThreadsClassifier ==
    /\ fn.op = "threads"
    /\ \E config \in Configs :
          \E th \in ThreadClassifier(ReadThread(config)) : WriteThread(config, th)
    /\ FunctionStep

ThreadsChat ==
    /\ fn.op = "threads"
    /\ \E config \in Configs :
          \E th \in ThreadChat(ReadThread(config)) : WriteThread(config, th)
    /\ FunctionStep

ThreadsApproval ==
    /\ fn.op = "threads"
    /\ \E config \in Configs :
          \E th \in ThreadApproval(ReadThread(config)) : WriteThread(config, th)
    /\ FunctionStep

ThreadsTools ==
    /\ fn.op = "threads"
    /\ \E config \in Configs :
          \E th \in ThreadTools(ReadThread(config)) : WriteThread(config, th)
    /\ FunctionStep

ThreadsResume ==
    /\ fn.op = "threads"
    /\ \E config \in Configs :
          \E th \in ThreadResume(ReadThread(config)) : WriteThread(config, th)
    /\ FunctionStep

ThreadsAutoResume ==
    /\ fn.op = "threads"
    /\ \E config \in Configs :
          \E th \in ThreadAutoResume(ReadThread(config)) : WriteThread(config, th)
    /\ FunctionStep

\* the process stops and starts again: runs in flight are lost, the compiled
\* graph is built again over the same database file
ProcessRestart ==
    /\ fn.op = "threads"
    /\ fn.restarts < MaxRestarts
    /\ fn' = [ fn EXCEPT
                 !.store = [ t \in ThreadIds |->
                               [ fn.store[t] EXCEPT
                                   !.cp = checkpoints_after_restart(@),
                                   !.pc = "idle" ] ],
                 !.last = "restart",
                 !.restarts = @ + 1 ]
    /\ FunctionStep

NextThreads ==
    \/ ThreadsUserMessage
    \/ ThreadsClassifier
    \/ ThreadsChat
    \/ ThreadsApproval
    \/ ThreadsTools
    \/ ThreadsResume
    \/ ThreadsAutoResume
    \/ ProcessRestart

SpecThreads == InitThreads /\ [][NextThreads]_vars

MaxHistory == 5
MaxN == 3

\* the kinds of message a history holds
MessageKinds ==
    { HumanMessage, AIMessage("answer", << >>),
      AIMessage("answer", << [ name |-> "calculator", id |-> 1 ] >>),
      ToolMessage(ToolResultText, 1, "calculator") }

\* every list of up to MaxHistory messages, with ids as the reducer gives them
TurnHistories == { add_messages(<< >>, s) : s \in SeqsUpTo(MessageKinds, MaxHistory) }

InitTurns ==
    /\ InitWith(DefaultToolsRequiringApproval)
    /\ \E msgs \in TurnHistories, n \in 1..MaxN :
          fn = [ op |-> "turns_in", msgs |-> msgs, n |-> n ]

\* one call of extract_last_n_turns(messages, n)
TurnsApply ==
    /\ fn.op = "turns_in"
    /\ fn' = [ op |-> "turns_out", msgs |-> fn.msgs, n |-> fn.n,
               turns |-> extract_last_n_turns(fn.msgs, fn.n) ]
    /\ FunctionStep

SpecTurns == InitTurns /\ [][TurnsApply]_vars

\* the index of the last user message before index x (0 when there is none)
HumanBefore(msgs, x) ==
    LET humans == { j \in 1..(x - 1) : msgs[j].type = "human" }
    IN  IF humans = {} THEN 0 ELSE CHOOSE j \in humans : \A y \in humans : y <= j

\* C31: extract_last_n_turns returns at most n pairs, each a user message
\* and the last assistant message that follows it before the next user
\* message; the pairs are in the order of the history and they are the
\* most recent ones: a turn of the history is left out only when n pairs
\* that come after it were returned.
C31_LastTurnsInOrder ==
    fn.op = "turns_out" =>
        LET out == fn.turns
            msgs == fn.msgs
            pairs == Len(out) \div 2
            h(k) == PositionOfMessage(msgs, out[2 * k - 1])
            a(k) == PositionOfMessage(msgs, out[2 * k])
        IN  /\ Len(out) % 2 = 0
            /\ pairs <= fn.n
            /\ \A k \in 1..pairs :
                  /\ out[2 * k - 1].type = "human"
                  /\ out[2 * k].type = "ai"
                  /\ h(k) = HumanBefore(msgs, a(k))
                  /\ h(k) > 0
                  /\ \A x \in (a(k) + 1)..Len(msgs) :
                        msgs[x].type = "ai" => HumanBefore(msgs, x) # h(k)
            /\ \A k \in 1..(pairs - 1) : a(k) < h(k + 1)
            /\ \A x \in 1..Len(msgs) :
                  (msgs[x].type = "ai" /\ HumanBefore(msgs, x) > 0) =>
                      \/ \E k \in 1..pairs : h(k) = HumanBefore(msgs, x)
                      \/ (pairs = fn.n /\ x < h(1))

\* a history of two turns of which only the later one is returned
C31_Witness ==
    /\ fn.op = "turns_out"
    /\ fn.n = 1
    /\ Len(fn.turns) = 2
    /\ Len(fn.msgs) >= 4
    /\ fn.msgs[1].type = "human"
    /\ fn.msgs[2].type = "ai"
    /\ fn.msgs[3].type = "human"
    /\ fn.msgs[4].type = "ai"
    /\ PositionOfMessage(fn.msgs, fn.turns[1]) = 3

\* C32: a step of the tools node leaves every stored message as it was, the
\* assistant message with all the tool calls it was created with included,
\* and adds ToolMessages only.
C32_ToolsKeepMessages ==
    [][lastStep' = "tools" =>
         /\ IsPrefix(messages, messages')
         /\ \A i \in (Len(messages) + 1)..Len(messages') : messages'[i].type = "tool"
         /\ LastAIIndex(messages') = LastAIIndex(messages)
         /\ LastBatch(messages') = LastBatch(messages)]_vars

\* the tools node ran on a batch of which one call was rejected before: the
\* stored assistant message holds more calls than were dispatched
C32_Witness ==
    /\ lastStep = "tools"
    /\ lastDispatch # << >>
    /\ rejectedIds \cap CallIds(LastBatch(messages)) # {}
    /\ Len(LastBatch(messages)) = Len(lastDispatch) + 1
    /\ messages[Len(messages)].type = "tool"
    /\ messages[Len(messages)].content = ToolResultText

\* C33: in every checkpointed state pending_tool_calls is non-empty exactly
\* when needs_approval is true, and a thread whose run ended holds no
\* pending calls.
C33_PendingIffNeeded ==
    /\ (pending_tool_calls # << >>) <=> needs_approval
    /\ (pc = "idle" /\ next_node = "end") => pending_tool_calls = << >>

\* C34: when a run started by a resume stops with a new pending batch, the
\* per-tool decisions of the earlier round are gone: approval_decisions is
\* empty before the batch is shown.
C34_DecisionsPerRound ==
    (lastStep = "approval_check" /\ ResumedRun /\ pc = "idle"
        /\ next_node = "tools" /\ pending_tool_calls # << >>)
        => approval_decisions = NoDecisions

(* --------------------------- reset_chat on its own --------------------- *)
\* clock readings per second, the last clock reading and the number of
\* conversations started in one run
TicksPerSecond == 2
MaxClock == 5
MaxChats == 3

Sessions == { "session_a", "session_b" }

\* datetime.now().strftime('%Y%m%d_%H%M%S') behind the prefix "chat_": the
\* clock reading cut down to the second
thread_id_at(now) == now \div TicksPerSecond

InitReset ==
    /\ InitWith(DefaultToolsRequiringApproval)
    /\ fn = [ op |-> "reset", now |-> 0, started |-> << >> ]

\* time passes
ClockTick ==
    /\ fn.op = "reset"
    /\ fn.now < MaxClock
    /\ fn' = [ fn EXCEPT !.now = @ + 1 ]
    /\ FunctionStep

\* reset_chat() in one of the sessions the process serves: the new
\* conversation gets the thread id of the current clock reading
reset_chat ==
    /\ fn.op = "reset"
    /\ Len(fn.started) < MaxChats
    /\ \E session \in Sessions :
          fn' = [ fn EXCEPT !.started =
                    Append(@, [ session |-> session,
                                thread_id |-> thread_id_at(fn.now) ]) ]
    /\ FunctionStep

NextReset == ClockTick \/ reset_chat

SpecReset == InitReset /\ [][NextReset]_vars

\* C35: two conversations started by separate reset_chat calls, in the same
\* session or in two sessions, have different thread ids.
C35_DistinctThreadIds ==
    fn.op = "reset" =>
        \A i, j \in 1..Len(fn.started) :
            i # j => fn.started[i].thread_id # fn.started[j].thread_id

\* every tool call of every assistant message of msgs has a ToolMessage with
\* its id later in msgs
AllCallsAnswered(msgs) ==
    \A i \in 1..Len(msgs) :
        IsAIWithCalls(msgs[i]) =>
            \A k \in 1..Len(msgs[i].tool_calls) :
                \E j \in (i + 1)..Len(msgs) :
                    /\ msgs[j].type = "tool"
                    /\ msgs[j].tool_call_id = msgs[i].tool_calls[k].id

\* C36: whenever chat_node is about to invoke the model, every tool call in
\* the history it sends is answered by a later ToolMessage with the same id.
C36_NoUnansweredCallSent ==
    pc = "chat_node" => AllCallsAnswered(messages)

\* chat_node lines 85-91: names of the tools bound to the model in the turn
ActiveToolNames(allowed) == Range(filtered_tools(allowed))

\* C37: every tool call the tools node executes names a tool of the active
\* tool set of the turn (the catalog restricted to allowed_tools, or the whole
\* catalog when allowed_tools is empty).
C37_OnlyActiveToolsRun ==
    [][\A k \in (Len(executed) + 1)..Len(executed') :
          executed'[k].name \in ActiveToolNames(allowed_tools)]_vars

\* msgs holds a SystemMessage or a corrective feedback message of chat_node
HoldsLocalMessage(msgs) ==
    \E i \in 1..Len(msgs) :
        \/ msgs[i].type = "system"
        \/ \E o \in SchemaErrors : msgs[i].content = SchemaFeedback(o).content

\* C38: the system prompt and the feedback messages chat_node adds for a
\* model invocation stay in its local list: the update it returns is one
\* assistant message, and the history after the update is the history before
\* it followed by that message, with no system prompt or feedback in it.
C38_LocalMessagesStayLocal ==
    fn.op = "chat_out" =>
        /\ Len(fn.prompts) = Len(fn.invoked)
        /\ Len(fn.messages) = 1
        /\ fn.messages[1].type = "ai"
        /\ fn.merged =
              Append(fn.msgs, [ fn.messages[1] EXCEPT !.mid = Len(fn.msgs) + 1 ])
        /\ ~HoldsLocalMessage(fn.merged)

\* a call with two schema errors of different classes: the third prompt holds
\* the system prompt and both feedback messages, the history holds none
C38_Witness ==
    /\ fn.op = "chat_out"
    /\ fn.script = << "schema", "validation", "tools" >>
    /\ fn.prompts[3] =
          << SystemMessage >> \o fn.msgs \o
          << SchemaFeedback("schema"), SchemaFeedback("validation") >>
    /\ Len(fn.merged) = Len(fn.msgs) + 1
    /\ ~HoldsLocalMessage(fn.merged)

====
